---- MODULE Spec2Model ----
(***************************************************************************)
(* Model of devdezzies/foodmini-vit: data_setup.py (download_data,         *)
(* create_dataloaders) and model_builder.py (create_model_baseline_vit).   *)
(*                                                                         *)
(* Three specifications share the module, one per function:                *)
(*   Spec         download_data called any number of times on a filesystem *)
(*   SpecLoaders  create_dataloaders followed by traversals of the loaders *)
(*   SpecModel    create_model_baseline_vit                                *)
(***************************************************************************)
EXTENDS Integers, Sequences, FiniteSets, TLC

VARIABLES
    \* ---- download_data ----
    fs,             \* the children of data/: name -> [kind, data, entries]
    dataRoot,       \* TRUE iff the directory data/ exists
    pc,             \* position of the current call of download_data
    source,         \* argument: the URL, a sequence of path segments
    destination,    \* argument: the directory name under data/
    remove_source,  \* argument
    image_path,     \* local: data_path / destination
    target_file,    \* local: Path(source).name
    request,        \* local: the response body held by `request`
    zip_ref,        \* local: the archive opened by zipfile.ZipFile
    ret,            \* the value returned by the call (<<>> while none)
    raisedAt,       \* the step whose error left the call ("none" while none)
    log,            \* history: the steps this call has run so far
    gets,           \* history: HTTP GETs issued by this call
    fs0,            \* history: fs when this call began
    failedDests,    \* history: destinations of calls that failed in download or extraction
    \* ---- create_dataloaders ----
    trainTree,      \* train_dir: class subdirectory -> set of image files
    testTree,       \* test_dir:  class subdirectory -> set of image files
    lpc,            \* position of create_dataloaders
    batch_size,     \* argument
    num_workers,    \* argument
    train_data,     \* local: ImageFolder of train_dir
    test_data,      \* local: ImageFolder of test_dir
    loaders,        \* the returned (train_dataloader, test_dataloader, class_names)
    trainEpochs,    \* history: sample order of each traversal of the train loader
    testEpochs,     \* history: sample order of each traversal of the test loader
    \* ---- create_model_baseline_vit ----
    mpc,            \* position of create_model_baseline_vit
    out_feats,      \* argument
    device,         \* argument
    pretrained_vit, \* local: the model under construction
    todo,           \* the parameters the freeze loop has still to visit
    seed,           \* the process-wide random seed
    model           \* the returned model ("none" while none)

dlVars == <<fs, dataRoot, pc, source, destination, remove_source, image_path,
            target_file, request, zip_ref, ret, raisedAt, log, gets, fs0,
            failedDests>>
ldVars == <<trainTree, testTree, lpc, batch_size, num_workers, train_data,
            test_data, loaders, trainEpochs, testEpochs>>
mbVars == <<mpc, out_feats, device, pretrained_vit, todo, seed, model>>
vars == <<dlVars, ldVars, mbVars>>

(***************************************************************************)
(* Bounds                                                                  *)
(***************************************************************************)
\* entries held by each downloadable archive
MaxEntries == 2
\* traversals recorded per loader
MaxEpochs == 2
\* largest class count asked of the model factory
MaxOutFeats == 3

(***************************************************************************)
(* download_data: the filesystem and the network                           *)
(***************************************************************************)
\* names a child of data/ can have
Names == {"a", "b", "c"}
\* destinations the caller passes
Destinations == {"a", "b"}
\* URLs the caller passes, as sequences of path segments (host first)
Sources == {<<"h", "a">>, <<"h", "x", "a">>, <<"h", "b">>, <<"h", "c">>}

NoSource == <<>>
Blob(tag, src) == [tag |-> tag, src |-> src]
NoBlob == Blob("none", NoSource)
\* a valid ZIP archive: the dataset served at src
ZipOf(src) == Blob("zip", src)
\* the entries of the archive served at src
EntriesOf(src) == {[from |-> src, k |-> k] : k \in 1..MaxEntries}
OldEntry == [from |-> NoSource, k |-> 0]

Absent == [kind |-> "absent", data |-> NoBlob, entries |-> {}]
File(blob) == [kind |-> "file", data |-> blob, entries |-> {}]
Dir(entries) == [kind |-> "dir", data |-> NoBlob, entries |-> entries]

\* Path.is_dir()
IsDir(f, name) == f[name].kind = "dir"

\* data_path / destination
ImagePath(dest) == <<"data", dest>>

\* Path(source).name: the final path segment
PathName(src) == src[Len(src)]

\* what a file holds after `body` is written at the end of content `cur`
Written(cur, body) == IF cur.tag = "empty" THEN body ELSE Blob("garbled", NoSource)

\* mutant of StepAfter: the archive is removed before it is extracted
StepAfterRemoveFirst(step, rm) ==
    CASE step = "mkdir"   -> "open"
      [] step = "open"    -> "get"
      [] step = "get"     -> "write"
      [] step = "write"   -> IF rm THEN "remove" ELSE "zipopen"
      [] step = "remove"  -> "zipopen"
      [] step = "zipopen" -> "extract"
      [] step = "extract" -> "return"

\* the statement that follows each step of the download branch
StepAfter(step, rm) ==
    CASE step = "mkdir"   -> "open"
      [] step = "open"    -> "get"
      [] step = "get"     -> "write"
      [] step = "write"   -> "zipopen"
      [] step = "zipopen" -> "extract"
      [] step = "extract" -> IF rm THEN "remove" ELSE "return"
      [] step = "remove"  -> "return"

\* mutant of AfterError: a failed call cleans up the directory it created
AfterErrorRollback(f, dest) == [f EXCEPT ![dest] = Absent]

\* the filesystem a step leaves behind when it raises: what it had done so far
\* stays, nothing is rolled back
AfterError(f, dest) == f

dlLocals == <<source, destination, remove_source, image_path, fs0>>

\* a step completes: control moves to the next statement
Done(step) ==
    /\ pc' = StepAfter(step, remove_source)
    /\ log' = Append(log, step)
    /\ UNCHANGED <<raisedAt, ret, failedDests>>

\* mutant of Raise: the error is caught and the step is tried again
RaiseRetry(step) ==
    /\ pc' = step
    /\ raisedAt' = "none"
    /\ log' = log
    /\ UNCHANGED <<ret, failedDests>>

\* a step raises: nothing catches it, the call ends with the error
Raise(step) ==
    /\ pc' = "raised"
    /\ raisedAt' = step
    /\ log' = Append(log, step)
    /\ failedDests' = IF step \in {"open", "get", "write", "zipopen", "extract"}
                      THEN failedDests \cup {destination}
                      ELSE failedDests
    /\ UNCHANGED ret

\* download_data(source, destination, remove_source): entry, lines 32-33
Call ==
    /\ pc \in {"idle", "returned", "raised"}
    /\ \E src \in Sources, dest \in Destinations, rm \in BOOLEAN :
          /\ source' = src
          /\ destination' = dest
          /\ remove_source' = rm
          /\ image_path' = ImagePath(dest)
    /\ pc' = "check"
    /\ target_file' = ""
    /\ request' = NoBlob
    /\ zip_ref' = NoSource
    /\ ret' = <<>>
    /\ raisedAt' = "none"
    /\ log' = <<>>
    /\ gets' = 0
    /\ fs0' = fs
    /\ UNCHANGED <<fs, dataRoot, failedDests>>
    /\ UNCHANGED <<ldVars, mbVars>>

\* mutant of Check: the test is inverted
CheckInverted ==
    /\ pc = "check"
    /\ pc' = IF IsDir(fs, destination) THEN "mkdir" ELSE "return"
    /\ UNCHANGED <<fs, dataRoot, target_file, request, zip_ref, ret, raisedAt,
                   log, gets, failedDests>>
    /\ UNCHANGED dlLocals
    /\ UNCHANGED <<ldVars, mbVars>>

\* if image_path.is_dir(): ... else: ...
Check ==
    /\ pc = "check"
    /\ pc' = IF IsDir(fs, destination) THEN "return" ELSE "mkdir"
    /\ UNCHANGED <<fs, dataRoot, target_file, request, zip_ref, ret, raisedAt,
                   log, gets, failedDests>>
    /\ UNCHANGED dlLocals
    /\ UNCHANGED <<ldVars, mbVars>>

\* image_path.mkdir(parents=True, exist_ok=True)
Mkdir ==
    /\ pc = "mkdir"
    /\ \/ /\ fs[destination].kind = "dir"
          /\ UNCHANGED <<fs, dataRoot>>
          /\ Done("mkdir")
       \/ /\ fs[destination].kind = "absent"
          /\ fs' = [fs EXCEPT ![destination] = Dir({})]
          /\ dataRoot' = TRUE
          /\ Done("mkdir")
       \/ /\ fs[destination].kind # "dir"
          /\ UNCHANGED <<fs, dataRoot>>
          /\ Raise("mkdir")
    /\ UNCHANGED <<target_file, request, zip_ref, gets>>
    /\ UNCHANGED dlLocals
    /\ UNCHANGED <<ldVars, mbVars>>

\* mutant of Open: the file is opened for appending, so what it held stays
OpenAppend ==
    /\ pc = "open"
    /\ target_file' = PathName(source)
    /\ \/ /\ fs[PathName(source)].kind = "absent"
          /\ fs' = [fs EXCEPT ![PathName(source)] = File(Blob("empty", NoSource))]
          /\ Done("open")
       \/ /\ fs[PathName(source)].kind = "file"
          /\ UNCHANGED fs
          /\ Done("open")
       \/ /\ fs' = AfterError(fs, destination)
          /\ Raise("open")
    /\ UNCHANGED <<dataRoot, request, zip_ref, gets>>
    /\ UNCHANGED dlLocals
    /\ UNCHANGED <<ldVars, mbVars>>

\* target_file = Path(source).name; open(data_path / target_file, "wb")
Open ==
    /\ pc = "open"
    /\ target_file' = PathName(source)
    /\ \/ /\ fs[PathName(source)].kind # "dir"
          /\ fs' = [fs EXCEPT ![PathName(source)] = File(Blob("empty", NoSource))]
          /\ Done("open")
       \/ /\ fs' = AfterError(fs, destination)
          /\ Raise("open")
    /\ UNCHANGED <<dataRoot, request, zip_ref, gets>>
    /\ UNCHANGED dlLocals
    /\ UNCHANGED <<ldVars, mbVars>>

\* request = requests.get(source)
Get ==
    /\ pc = "get"
    /\ gets' = gets + 1
    /\ \/ /\ \E body \in {ZipOf(source), Blob("notzip", NoSource)} : request' = body
          /\ UNCHANGED fs
          /\ Done("get")
       \/ /\ UNCHANGED request
          /\ fs' = AfterError(fs, destination)
          /\ Raise("get")
    /\ UNCHANGED <<dataRoot, target_file, zip_ref>>
    /\ UNCHANGED dlLocals
    /\ UNCHANGED <<ldVars, mbVars>>

\* f.write(request.content), then the with block closes f
Write ==
    /\ pc = "write"
    /\ \/ /\ fs' = [fs EXCEPT ![target_file] =
                        File(Written(fs[target_file].data, request))]
          /\ Done("write")
       \/ /\ fs' = AfterError([fs EXCEPT ![target_file] =
                                  File(Blob("truncated", NoSource))], destination)
          /\ Raise("write")
    /\ UNCHANGED <<dataRoot, target_file, request, zip_ref, gets>>
    /\ UNCHANGED dlLocals
    /\ UNCHANGED <<ldVars, mbVars>>

\* zipfile.ZipFile(data_path / target_file, "r")
ZipOpen ==
    /\ pc = "zipopen"
    /\ \/ /\ fs[target_file].kind = "file"
          /\ fs[target_file].data.tag = "zip"
          /\ zip_ref' = fs[target_file].data.src
          /\ UNCHANGED fs
          /\ Done("zipopen")
       \/ /\ UNCHANGED zip_ref
          /\ fs' = AfterError(fs, destination)
          /\ Raise("zipopen")
    /\ UNCHANGED <<dataRoot, target_file, request, gets>>
    /\ UNCHANGED dlLocals
    /\ UNCHANGED <<ldVars, mbVars>>

\* mutant of Extract: only the first member of the archive is extracted
ExtractFirstOnly ==
    /\ pc = "extract"
    /\ \/ /\ fs' = [fs EXCEPT ![destination] =
                        Dir(fs[destination].entries
                            \cup {e \in EntriesOf(zip_ref) : e.k = 1})]
          /\ Done("extract")
       \/ /\ fs' = AfterError(fs, destination)
          /\ Raise("extract")
    /\ UNCHANGED <<dataRoot, target_file, request, zip_ref, gets>>
    /\ UNCHANGED dlLocals
    /\ UNCHANGED <<ldVars, mbVars>>

\* zip_ref.extractall(image_path), then the with block closes zip_ref
Extract ==
    /\ pc = "extract"
    /\ \/ /\ fs' = [fs EXCEPT ![destination] =
                        Dir(fs[destination].entries \cup EntriesOf(zip_ref))]
          /\ Done("extract")
       \/ /\ \E part \in SUBSET EntriesOf(zip_ref) :
                /\ part # EntriesOf(zip_ref)
                /\ fs' = AfterError([fs EXCEPT ![destination] =
                             Dir(fs[destination].entries \cup part)], destination)
          /\ Raise("extract")
    /\ UNCHANGED <<dataRoot, target_file, request, zip_ref, gets>>
    /\ UNCHANGED dlLocals
    /\ UNCHANGED <<ldVars, mbVars>>

\* if remove_source: os.remove(data_path / target_file)
Remove ==
    /\ pc = "remove"
    /\ \/ /\ fs[target_file].kind = "file"
          /\ fs' = [fs EXCEPT ![target_file] = Absent]
          /\ Done("remove")
       \/ /\ fs' = AfterError(fs, destination)
          /\ Raise("remove")
    /\ UNCHANGED <<dataRoot, target_file, request, zip_ref, gets>>
    /\ UNCHANGED dlLocals
    /\ UNCHANGED <<ldVars, mbVars>>

\* mutant of Return: the data folder is returned instead of the image folder
ReturnDataPath ==
    /\ pc = "return"
    /\ pc' = "returned"
    /\ ret' = <<"data">>
    /\ UNCHANGED <<fs, dataRoot, target_file, request, zip_ref, raisedAt, log,
                   gets, failedDests>>
    /\ UNCHANGED dlLocals
    /\ UNCHANGED <<ldVars, mbVars>>

\* return image_path
Return ==
    /\ pc = "return"
    /\ pc' = "returned"
    /\ ret' = image_path
    /\ UNCHANGED <<fs, dataRoot, target_file, request, zip_ref, raisedAt, log,
                   gets, failedDests>>
    /\ UNCHANGED dlLocals
    /\ UNCHANGED <<ldVars, mbVars>>

\* the filesystem before the first call: any mix of absent names, files and
\* directories left there by something else
InitFs ==
    /\ fs \in [Names -> {Absent, File(Blob("old", NoSource)), Dir({}), Dir({OldEntry})}]
    /\ dataRoot \in BOOLEAN
    /\ (\E n \in Names : fs[n].kind # "absent") => dataRoot

InitDownload ==
    /\ InitFs
    /\ pc = "idle"
    /\ source = NoSource
    /\ destination = ""
    /\ remove_source = TRUE
    /\ image_path = <<>>
    /\ target_file = ""
    /\ request = NoBlob
    /\ zip_ref = NoSource
    /\ ret = <<>>
    /\ raisedAt = "none"
    /\ log = <<>>
    /\ gets = 0
    /\ fs0 = fs
    /\ failedDests = {}

NextDownload ==
    \/ Call
    \/ Check
    \/ Mkdir
    \/ Open
    \/ Get
    \/ Write
    \/ ZipOpen
    \/ Extract
    \/ Remove
    \/ Return

(***************************************************************************)
(* create_dataloaders                                                      *)
(***************************************************************************)
\* names a class subdirectory can have; the numbers stand for the names in
\* the order Python's sorted() puts them
ClassDirs == {1, 2, 3}
\* image files a class subdirectory can hold
ImageFiles == {1}
BatchSizes == {1, 2}
WorkerCounts == {0, 2}

NoSubdir == [dir |-> FALSE, files |-> {}]
Subdir(files) == [dir |-> TRUE, files |-> files]
Trees == [ClassDirs -> {NoSubdir} \cup {Subdir(f) : f \in SUBSET ImageFiles}]

Min(S) == CHOOSE x \in S : \A y \in S : x <= y

\* sorted(S)
RECURSIVE Sorted(_)
Sorted(S) == IF S = {} THEN <<>> ELSE <<Min(S)>> \o Sorted(S \ {Min(S)})

Range(q) == {q[i] : i \in DOMAIN q}

\* the samples of the classes q[1..], each class's files sorted
RECURSIVE SamplesOf(_, _, _)
SamplesOf(tree, q, idx) ==
    IF q = <<>> THEN <<>>
    ELSE [i \in 1..Cardinality(tree[Head(q)].files) |->
             [class |-> Head(q), file |-> Sorted(tree[Head(q)].files)[i],
              label |-> idx]]
         \o SamplesOf(tree, Tail(q), idx + 1)

\* datasets.ImageFolder(root): classes are the sorted names of the immediate
\* subdirectories; no subdirectory, or one without an image, is an error
FindClasses(tree) == Sorted({c \in ClassDirs : tree[c].dir})

ImageFolderRaises(tree) ==
    \/ FindClasses(tree) = <<>>
    \/ \E c \in ClassDirs : tree[c].dir /\ tree[c].files = {}

ImageFolder(tree) ==
    [classes |-> FindClasses(tree),
     samples |-> SamplesOf(tree, FindClasses(tree), 0)]

NoData == [classes |-> <<>>, samples |-> <<>>]

\* DataLoader(dataset, batch_size=, shuffle=, num_workers=, pin_memory=)
DataLoader(dataset, bs, shuffle, nw, pin) ==
    [dataset |-> dataset, batch_size |-> bs, shuffle |-> shuffle,
     num_workers |-> nw, pin_memory |-> pin]

\* train_dataloader = DataLoader(train_data, ..., shuffle=True, ...)
TrainDataLoader(data, bs, nw) == DataLoader(data, bs, TRUE, nw, TRUE)

\* mutant of TestDataLoader: the testing loader shuffles too
TestDataLoaderShuffled(data, bs, nw) == DataLoader(data, bs, TRUE, nw, TRUE)

\* test_dataloader = DataLoader(test_data, ..., shuffle=False, ...)
TestDataLoader(data, bs, nw) == DataLoader(data, bs, FALSE, nw, TRUE)

\* mutant of ClassNamesOf: the names are read from the testing dataset
ClassNamesOfTest(train, test) == test.classes

\* class_names = train_data.classes
ClassNamesOf(train, test) == train.classes

Orderings(n) ==
    {q \in [1..n -> 1..n] : \A i, j \in 1..n : q[i] = q[j] => i = j}

\* the sample orders one traversal of a loader can take: a RandomSampler draws
\* a permutation, a SequentialSampler walks the dataset in order
EpochOrders(loader) ==
    IF loader.shuffle THEN Orderings(Len(loader.dataset.samples))
    ELSE {[i \in 1..Len(loader.dataset.samples) |-> i]}

NoLoaders == [train_dataloader |-> DataLoader(NoData, 0, FALSE, 0, FALSE),
              test_dataloader |-> DataLoader(NoData, 0, FALSE, 0, FALSE),
              class_names |-> <<>>]

\* create_dataloaders(train_dir, test_dir, ..., batch_size, num_workers)
CallLoaders ==
    /\ lpc = "idle"
    /\ batch_size' \in BatchSizes
    /\ num_workers' \in WorkerCounts
    /\ lpc' = "train_data"
    /\ UNCHANGED <<trainTree, testTree, train_data, test_data, loaders,
                   trainEpochs, testEpochs>>
    /\ UNCHANGED <<dlVars, mbVars>>

\* train_data = datasets.ImageFolder(root=train_dir, transform=train_transform)
MakeTrainData ==
    /\ lpc = "train_data"
    /\ IF ImageFolderRaises(trainTree)
       THEN lpc' = "raised" /\ UNCHANGED train_data
       ELSE lpc' = "test_data" /\ train_data' = ImageFolder(trainTree)
    /\ UNCHANGED <<trainTree, testTree, batch_size, num_workers, test_data,
                   loaders, trainEpochs, testEpochs>>
    /\ UNCHANGED <<dlVars, mbVars>>

\* test_data = datasets.ImageFolder(root=test_dir, transform=test_transform)
MakeTestData ==
    /\ lpc = "test_data"
    /\ IF ImageFolderRaises(testTree)
       THEN lpc' = "raised" /\ UNCHANGED test_data
       ELSE lpc' = "loaders" /\ test_data' = ImageFolder(testTree)
    /\ UNCHANGED <<trainTree, testTree, batch_size, num_workers, train_data,
                   loaders, trainEpochs, testEpochs>>
    /\ UNCHANGED <<dlVars, mbVars>>

\* class_names, the two DataLoaders, and the return
MakeLoaders ==
    /\ lpc = "loaders"
    /\ loaders' = [train_dataloader |->
                        TrainDataLoader(train_data, batch_size, num_workers),
                   test_dataloader |->
                        TestDataLoader(test_data, batch_size, num_workers),
                   class_names |-> ClassNamesOf(train_data, test_data)]
    /\ lpc' = "returned"
    /\ UNCHANGED <<trainTree, testTree, batch_size, num_workers, train_data,
                   test_data, trainEpochs, testEpochs>>
    /\ UNCHANGED <<dlVars, mbVars>>

\* the caller walks the training loader once
TraverseTrain ==
    /\ lpc = "returned"
    /\ Len(trainEpochs) < MaxEpochs
    /\ \E order \in EpochOrders(loaders.train_dataloader) :
          trainEpochs' = Append(trainEpochs, order)
    /\ UNCHANGED <<trainTree, testTree, lpc, batch_size, num_workers,
                   train_data, test_data, loaders, testEpochs>>
    /\ UNCHANGED <<dlVars, mbVars>>

\* the caller walks the testing loader once
TraverseTest ==
    /\ lpc = "returned"
    /\ Len(testEpochs) < MaxEpochs
    /\ \E order \in EpochOrders(loaders.test_dataloader) :
          testEpochs' = Append(testEpochs, order)
    /\ UNCHANGED <<trainTree, testTree, lpc, batch_size, num_workers,
                   train_data, test_data, loaders, trainEpochs>>
    /\ UNCHANGED <<dlVars, mbVars>>

LoaderLocalsInit ==
    /\ lpc = "idle"
    /\ batch_size = 0
    /\ num_workers = 0
    /\ train_data = NoData
    /\ test_data = NoData
    /\ loaders = NoLoaders
    /\ trainEpochs = <<>>
    /\ testEpochs = <<>>

InitLoaders ==
    /\ trainTree \in Trees
    /\ testTree \in Trees
    /\ LoaderLocalsInit

NextLoaders ==
    \/ CallLoaders
    \/ MakeTrainData
    \/ MakeTestData
    \/ MakeLoaders
    \/ TraverseTrain
    \/ TraverseTest

(***************************************************************************)
(* create_model_baseline_vit                                               *)
(***************************************************************************)
\* in_features of the new head
EmbeddingDim == 768
OutFeats == (0 - 1)..MaxOutFeats
Devices == {"None", "cpu", "cuda"}
Seeds == {"unset", "other", "fixed"}

\* the parameters in the order Module.parameters() yields them: the backbone,
\* the head the pretrained model comes with, the head attached afterwards
ParamOrder == <<"class_token", "conv_proj", "encoder", "heads.head.weight",
                "heads.head.bias", "heads.weight", "heads.bias">>
PretrainedHeadParams == {"heads.head.weight", "heads.head.bias"}
LinearParams == {"heads.weight", "heads.bias"}
PretrainedParams == {"class_token", "conv_proj", "encoder"} \cup PretrainedHeadParams

Linear(in, out) == [in_features |-> in, out_features |-> out]

NoModel == [requires_grad |-> <<>>, heads |-> Linear(0, 0), device |-> "None"]

\* torchvision.models.vit_b_16(weights=weights).to(device): every parameter
\* of a freshly built module tracks gradients
VitB16(dev) ==
    [requires_grad |-> [p \in PretrainedParams |-> TRUE],
     heads |-> Linear(EmbeddingDim, 1000),
     device |-> dev]

\* pretrained_vit.parameters()
Parameters(m) == SelectSeq(ParamOrder, LAMBDA p : p \in DOMAIN m.requires_grad)

\* pretrained_vit.heads = nn.Linear(in_features=768, out_features=out_feats).to(device):
\* the old head's parameters leave the model, the new layer's join it tracking gradients
WithHead(m, out, dev) ==
    [m EXCEPT !.requires_grad =
                  [p \in (DOMAIN m.requires_grad \ PretrainedHeadParams) \cup LinearParams |->
                      IF p \in LinearParams THEN TRUE ELSE m.requires_grad[p]],
              !.heads = Linear(EmbeddingDim, out)]

\* mutant of ModelStepAfter: the head is replaced before the freeze loop runs
ModelStepAfterHeadFirst(step) ==
    CASE step = "load"   -> "seed"
      [] step = "seed"   -> "head"
      [] step = "head"   -> "freeze"
      [] step = "freeze" -> "return"

\* the statement that follows each statement of create_model_baseline_vit
ModelStepAfter(step) ==
    CASE step = "load"   -> "freeze"
      [] step = "freeze" -> "seed"
      [] step = "seed"   -> "head"
      [] step = "head"   -> "return"

\* control reaches a statement; the for loop starts by asking for the parameters
Goto(step, m) ==
    /\ mpc' = step
    /\ todo' = IF step = "freeze" THEN Parameters(m) ELSE <<>>

\* create_model_baseline_vit(out_feats, device), lines 10-11
CallModel ==
    /\ mpc = "idle"
    /\ out_feats' \in OutFeats
    /\ device' \in Devices
    /\ pretrained_vit' = VitB16(device')
    /\ Goto(ModelStepAfter("load"), pretrained_vit')
    /\ UNCHANGED <<seed, model>>
    /\ UNCHANGED <<dlVars, ldVars>>

\* for param in pretrained_vit.parameters(): param.requires_grad = False
Freeze ==
    /\ mpc = "freeze"
    /\ IF todo = <<>>
       THEN /\ Goto(ModelStepAfter("freeze"), pretrained_vit)
            /\ UNCHANGED pretrained_vit
       ELSE /\ pretrained_vit' =
                  [pretrained_vit EXCEPT !.requires_grad[Head(todo)] = FALSE]
            /\ todo' = Tail(todo)
            /\ UNCHANGED mpc
    /\ UNCHANGED <<out_feats, device, seed, model>>
    /\ UNCHANGED <<dlVars, ldVars>>

\* set_seeds()
SetSeeds ==
    /\ mpc = "seed"
    /\ seed' = "fixed"
    /\ Goto(ModelStepAfter("seed"), pretrained_vit)
    /\ UNCHANGED <<out_feats, device, pretrained_vit, model>>
    /\ UNCHANGED <<dlVars, ldVars>>

\* pretrained_vit.heads = nn.Linear(...).to(device); a negative size is an error
ReplaceHead ==
    /\ mpc = "head"
    /\ IF out_feats < 0
       THEN /\ mpc' = "raised"
            /\ UNCHANGED <<pretrained_vit, todo>>
       ELSE /\ pretrained_vit' = WithHead(pretrained_vit, out_feats, device)
            /\ Goto(ModelStepAfter("head"), pretrained_vit')
    /\ UNCHANGED <<out_feats, device, seed, model>>
    /\ UNCHANGED <<dlVars, ldVars>>

\* return pretrained_vit
ReturnModel ==
    /\ mpc = "return"
    /\ model' = pretrained_vit
    /\ mpc' = "returned"
    /\ UNCHANGED <<out_feats, device, pretrained_vit, todo, seed>>
    /\ UNCHANGED <<dlVars, ldVars>>

ModelLocalsInit ==
    /\ mpc = "idle"
    /\ out_feats = 0
    /\ device = "None"
    /\ pretrained_vit = NoModel
    /\ todo = <<>>
    /\ model = NoModel

InitModel ==
    /\ seed \in Seeds
    /\ ModelLocalsInit

NextModel ==
    \/ CallModel
    \/ Freeze
    \/ SetSeeds
    \/ ReplaceHead
    \/ ReturnModel

(***************************************************************************)
(* Specifications                                                          *)
(***************************************************************************)
\* the components a specification leaves alone stay as constructed
IdleDownload ==
    /\ fs = [n \in Names |-> Absent]
    /\ dataRoot = FALSE
    /\ pc = "idle"
    /\ source = NoSource
    /\ destination = ""
    /\ remove_source = TRUE
    /\ image_path = <<>>
    /\ target_file = ""
    /\ request = NoBlob
    /\ zip_ref = NoSource
    /\ ret = <<>>
    /\ raisedAt = "none"
    /\ log = <<>>
    /\ gets = 0
    /\ fs0 = fs
    /\ failedDests = {}

IdleLoaders ==
    /\ trainTree = [c \in ClassDirs |-> NoSubdir]
    /\ testTree = [c \in ClassDirs |-> NoSubdir]
    /\ LoaderLocalsInit

IdleModel ==
    /\ seed = "unset"
    /\ ModelLocalsInit

Init == InitDownload /\ IdleLoaders /\ IdleModel

Next == NextDownload

Spec == Init /\ [][Next]_vars

InitL == IdleDownload /\ InitLoaders /\ IdleModel

SpecLoaders == InitL /\ [][NextLoaders]_vars

InitM == IdleDownload /\ IdleLoaders /\ InitModel

SpecModel == InitM /\ [][NextModel]_vars

(***************************************************************************)
(* Properties of download_data                                             *)
(***************************************************************************)
\* the final path segment of the URL of the current call
Segment == source[Len(source)]
\* the current call found no directory at data/<destination> when it began
OnDownloadPath == pc # "idle" /\ ~IsDir(fs0, destination)
\* the order of the steps of the download branch
DownloadOrder == <<"mkdir", "open", "get", "write", "zipopen", "extract", "remove">>

\* C1: a call made when data/<destination> is a directory issues no HTTP
\* request, runs no step of the download branch, leaves the filesystem as it
\* was when the call began, and returns data/<destination>.
C1_SkipPathIsNoOp ==
    (pc # "idle" /\ IsDir(fs0, destination)) =>
        /\ fs = fs0
        /\ dataRoot
        /\ gets = 0
        /\ log = <<>>
        /\ pc \in {"check", "return", "returned"}
        /\ pc = "returned" => ret = <<"data", destination>>

C1_Witness ==
    /\ pc = "returned"
    /\ IsDir(fs0, destination)
    /\ fs0[destination].entries = {OldEntry}

\* C2: a call that began without a directory at data/<destination> and
\* returned leaves data/<destination> a directory holding every entry of the
\* downloaded archive and, with remove_source, no file at data/<final segment>.
C2_DownloadPostcondition ==
    (pc = "returned" /\ OnDownloadPath) =>
        /\ IsDir(fs, destination)
        /\ request.tag = "zip"
        /\ EntriesOf(request.src) \subseteq fs[destination].entries
        /\ remove_source => fs[Segment].kind = "absent"

C2_Witness ==
    /\ pc = "returned"
    /\ OnDownloadPath
    /\ remove_source
    /\ fs0[destination].kind = "absent"
    /\ fs0[Segment].kind = "absent"

\* C3 as stated: every call that returns normally returns data/<destination>,
\* which is then a directory holding the dataset of the given source.
C3_ReturnedDirHoldsDataset ==
    pc = "returned" =>
        /\ ret = <<"data", destination>>
        /\ IsDir(fs, destination)
        /\ EntriesOf(source) \subseteq fs[destination].entries

\* C3 amended: every call that returns normally returns data/<destination>,
\* which is then a directory; it holds the dataset of the given source when the
\* call began without that directory, and is exactly what it was when the call
\* began otherwise.
C3_ReturnedDirExists ==
    pc = "returned" =>
        /\ ret = <<"data", destination>>
        /\ IsDir(fs, destination)
        /\ IF IsDir(fs0, destination)
           THEN fs[destination] = fs0[destination]
           ELSE EntriesOf(source) \subseteq fs[destination].entries

C3_Witness ==
    /\ pc = "returned"
    /\ OnDownloadPath
    /\ failedDests # {}
    /\ fs0[Segment].kind = "file"

\* C4: a step that fails ends the call with its error: the failed step is the
\* last one the call ran, the call returns nothing, no step runs twice and at
\* most one HTTP GET is issued per call.
C4_ErrorsPropagate ==
    /\ gets <= 1
    /\ \A i, j \in DOMAIN log : log[i] = log[j] => i = j
    /\ raisedAt # "none" =>
          /\ pc = "raised"
          /\ log # <<>>
          /\ log[Len(log)] = raisedAt
          /\ ret = <<>>
    /\ pc = "raised" => raisedAt # "none"

C4_Witness ==
    /\ pc = "raised"
    /\ raisedAt = "get"
    /\ gets = 1
    /\ fs[Segment] = File(Blob("empty", NoSource))

\* C8: once a call has failed during download or extraction, data/<destination>
\* stays a directory, and every later call with that destination takes the skip
\* path: it runs no step of the download branch, issues no GET and returns
\* data/<destination>.
C8_FailedDownloadIsNeverRepeated ==
    \A d \in failedDests :
        /\ IsDir(fs, d)
        /\ (pc \notin {"idle", "raised"} /\ destination = d) =>
              /\ pc \in {"check", "return", "returned"}
              /\ log = <<>>
              /\ gets = 0
              /\ pc = "returned" => ret = <<"data", d>>

C8_Witness ==
    /\ pc = "returned"
    /\ destination \in failedDests
    /\ ~(EntriesOf(source) \subseteq fs[destination].entries)

\* C9: the steps of the download branch run in the order mkdir, open, get,
\* write, zipopen, extract, remove; remove runs only with remove_source; from
\* the write on, the archive file is on disk until remove runs, so it is there
\* when extraction fails and when a call without remove_source returns.
C9_StepOrder ==
    /\ \A i \in DOMAIN log : i <= Len(DownloadOrder) /\ log[i] = DownloadOrder[i]
    /\ (\E i \in DOMAIN log : log[i] = "remove") => remove_source
    /\ (pc = "returned" /\ OnDownloadPath) =>
          Len(log) = IF remove_source THEN 7 ELSE 6
    /\ (Len(log) >= 4 /\ Len(log) <= 6) => fs[Segment].kind = "file"
    /\ (pc = "returned" /\ OnDownloadPath /\ ~remove_source) =>
          fs[Segment] = File(request)

C9_Witness ==
    /\ pc = "raised"
    /\ raisedAt = "extract"
    /\ remove_source
    /\ fs[Segment].kind = "file"

\* C10: a call changes no child of data/ other than data/<destination> and
\* data/<final segment>; a file that was at data/<final segment> when the call
\* began holds exactly the response body once the write has been done, and is
\* gone once a call with remove_source has returned.
C10_FrameAndArchiveOverwrite ==
    pc # "idle" =>
        /\ \A n \in Names \ {destination, Segment} : fs[n] = fs0[n]
        /\ (/\ fs0[Segment].kind = "file"
            /\ Len(log) >= 4 /\ Len(log) <= 6
            /\ raisedAt # "write") => fs[Segment] = File(request)
        /\ (/\ fs0[Segment].kind = "file"
            /\ pc = "returned" /\ OnDownloadPath
            /\ remove_source) => fs[Segment].kind = "absent"

C10_Witness ==
    /\ pc = "returned"
    /\ OnDownloadPath
    /\ remove_source
    /\ fs0[Segment].kind = "file"
    /\ fs0["c"].kind = "file"
    /\ fs["c"] = fs0["c"]

(***************************************************************************)
(* Properties of create_dataloaders                                        *)
(***************************************************************************)
\* the immediate subdirectories of a tree
SubdirsOf(tree) == {c \in ClassDirs : tree[c].dir}

\* C5: the returned class_names lists the immediate subdirectories of
\* train_dir, each once, in ascending order, whatever test_dir holds.
C5_ClassNamesFromTrainDir ==
    lpc = "returned" =>
        /\ Len(loaders.class_names) = Cardinality(SubdirsOf(trainTree))
        /\ Range(loaders.class_names) = SubdirsOf(trainTree)
        /\ \A i, j \in DOMAIN loaders.class_names :
              i < j => loaders.class_names[i] < loaders.class_names[j]

C5_Witness ==
    /\ lpc = "returned"
    /\ Cardinality(SubdirsOf(trainTree)) >= 2
    /\ SubdirsOf(testTree) # SubdirsOf(trainTree)
    /\ Cardinality(SubdirsOf(testTree)) = 1

\* C6: the testing loader is built without shuffling and walks its samples in
\* dataset order on every traversal; the training loader is built with
\* shuffling and every traversal of it is some permutation of its samples; the
\* two share batch_size, num_workers and pin_memory.
C6_ShuffleTrainNotTest ==
    lpc = "returned" =>
        /\ loaders.test_dataloader.shuffle = FALSE
        /\ loaders.train_dataloader.shuffle = TRUE
        /\ loaders.train_dataloader.batch_size = batch_size
        /\ loaders.test_dataloader.batch_size = batch_size
        /\ loaders.train_dataloader.num_workers = num_workers
        /\ loaders.test_dataloader.num_workers = num_workers
        /\ loaders.train_dataloader.pin_memory
        /\ loaders.test_dataloader.pin_memory
        /\ \A i \in DOMAIN testEpochs :
              testEpochs[i] = [k \in 1..Len(loaders.test_dataloader.dataset.samples) |-> k]
        /\ \A i \in DOMAIN trainEpochs :
              /\ DOMAIN trainEpochs[i] = 1..Len(loaders.train_dataloader.dataset.samples)
              /\ Range(trainEpochs[i]) = 1..Len(loaders.train_dataloader.dataset.samples)

C6_Witness ==
    /\ lpc = "returned"
    /\ Len(trainEpochs) = 2
    /\ trainEpochs[1] # trainEpochs[2]
    /\ Len(testEpochs) = 2
    /\ Len(testEpochs[1]) >= 2
    /\ testEpochs[1] = testEpochs[2]

(***************************************************************************)
(* Properties of create_model_baseline_vit                                 *)
(***************************************************************************)
\* C7: the returned model's head is one linear layer from 768 inputs to
\* out_feats outputs; its parameters track gradients and no other parameter
\* of the model does.
C7_OnlyNewHeadTrainable ==
    mpc = "returned" =>
        /\ model.heads = [in_features |-> 768, out_features |-> out_feats]
        /\ {"heads.weight", "heads.bias"} \subseteq DOMAIN model.requires_grad
        /\ \A p \in DOMAIN model.requires_grad :
              model.requires_grad[p] <=> p \in {"heads.weight", "heads.bias"}

C7_Witness ==
    /\ mpc = "returned"
    /\ out_feats = 3
    /\ "encoder" \in DOMAIN model.requires_grad
    /\ ~model.requires_grad["encoder"]

====
